---- MODULE Spec2Model ----
(***************************************************************************)
(* A model of yfs/summary.py: the SummaryPage record, the SummaryPageGroup *)
(* collection, the single-symbol fetch get_summary_page and the batch      *)
(* fetch get_multiple_summary_pages in its sequential and its threaded     *)
(* form.                                                                   *)
(*                                                                         *)
(* Strings that the code compares or upper-cases (ticker symbols) are      *)
(* sequences of code points, so that "<" and upper() are computed and not  *)
(* assumed.  Every Python value the code tests with "is", "__class__" or   *)
(* truthiness is a record with a class field.                              *)
(***************************************************************************)
EXTENDS Integers, Sequences, FiniteSets, TLC

(***************************************************************************)
(* Bounds of the model.                                                    *)
(***************************************************************************)
\* Longest list of symbols handed to get_multiple_summary_pages.
MaxSymbols == 3
\* Largest thread_count handed to get_multiple_summary_pages.
MaxThreads == 2
\* Longest SummaryPageGroup a caller builds by hand.
MaxPages == 4

\* Default of the thread_count parameter.
DefaultThreadCount == 5

(***************************************************************************)
(* Strings                                                                 *)
(***************************************************************************)
Range(s) == {s[i] : i \in DOMAIN s}

\* Python str.__lt__: lexicographic by code point, a proper prefix is less.
RECURSIVE StrLt(_, _)
StrLt(a, b) ==
    IF b = <<>> THEN FALSE
    ELSE IF a = <<>> THEN TRUE
    ELSE IF Head(a) # Head(b) THEN Head(a) < Head(b)
    ELSE StrLt(Tail(a), Tail(b))

StrLe(a, b) == a = b \/ StrLt(a, b)

\* A list of strings in non-decreasing order.
NonDecreasing(s) == \A i \in 1..(Len(s) - 1) : StrLe(s[i], s[i + 1])

\* Python str.upper() on ASCII text.
Upper(s) == [i \in DOMAIN s |-> IF s[i] \in 97..122 THEN s[i] - 32 ELSE s[i]]

\* The decimal text of a natural number.
RECURSIVE Digits(_)
Digits(n) == IF n < 10 THEN <<48 + n>> ELSE Digits(n \div 10) \o <<48 + (n % 10)>>

\* The text of a range as the summary table shows it: "low - high".
RangeText(low, high) == Digits(low) \o <<32, 45, 32>> \o Digits(high)

\* Python str.split(sep) for a separator of one character.
RECURSIVE split(_, _)
split(s, sep) ==
    IF sep \notin Range(s) THEN <<s>>
    ELSE LET i == CHOOSE j \in DOMAIN s :
                      s[j] = sep /\ \A k \in 1..(j - 1) : s[k] # sep
         IN  <<SubSeq(s, 1, i - 1)>> \o split(SubSeq(s, i + 1, Len(s)), sep)

\* Python str.strip() of blanks.
RECURSIVE strip(_)
strip(s) ==
    IF s = <<>> THEN s
    ELSE IF Head(s) = 32 THEN strip(Tail(s))
    ELSE IF s[Len(s)] = 32 THEN strip(SubSeq(s, 1, Len(s) - 1))
    ELSE s

\* The number a decimal text stands for.
RECURSIVE parse_number(_)
parse_number(s) ==
    IF s = <<>> THEN 0
    ELSE 10 * parse_number(SubSeq(s, 1, Len(s) - 1)) + (s[Len(s)] - 48)

\* The ticker strings of the model's data source.
AAPL == <<65, 65, 80, 76>>
GOOG == <<71, 79, 79, 71>>
GOOGL == <<71, 79, 79, 71, 76>>
goog == <<103, 111, 111, 103>>
DEAD == <<68, 69, 65, 68>>
NOQT == <<78, 79, 81, 84>>
VOID == <<86, 79, 73, 68>>
NOPE == <<78, 79, 80, 69>>
BOOM == <<66, 79, 79, 77>>
GOOGLE == <<71, 79, 79, 71, 76, 69>>
NEWT == <<78, 69, 87, 84>>
EMPT == <<69, 77, 80, 84>>

\* Symbols a batch call is given.
BatchSymbols == {AAPL, GOOG, goog, DEAD, NOPE, BOOM}
\* Symbols a single-symbol call is given.
SingleSymbols == BatchSymbols \cup {GOOGL, NOQT, VOID, GOOGLE, NEWT, EMPT}

(***************************************************************************)
(* Python values                                                           *)
(***************************************************************************)
None == [class |-> "NoneType"]
Raised(error) == [class |-> "Raised", error |-> error]
IsRaised(v) == v.class = "Raised"

(***************************************************************************)
(* The external collaborators: symbol lookup, page request, header parser. *)
(* A fixed data source: every kind of answer is given by some symbol.      *)
(***************************************************************************)
\* lookup.fuzzy_search(symbol, first_ticker=True): a match with its
\* canonical symbol, None when nothing matches, or an error of the request.
fuzzy_search(symbol) ==
    CASE symbol \in {GOOG, goog, GOOGLE} -> [class |-> "FuzzyResult", symbol |-> GOOG]
      [] symbol = GOOGL -> [class |-> "FuzzyResult", symbol |-> GOOGL]
      [] symbol = AAPL -> [class |-> "FuzzyResult", symbol |-> AAPL]
      [] symbol = DEAD -> [class |-> "FuzzyResult", symbol |-> DEAD]
      [] symbol = BOOM -> Raised("ConnectionError")
      [] OTHER -> None

\* requests_html.Element: the element found, with the rows of its table.
Element(rows) == [class |-> "Element", rows |-> rows]

\* quote.Quote: the parsed quote header.
Quote(name, close) == [class |-> "Quote", name |-> name, close |-> close]

\* The quote pages of the data source.  html.header is what
\* parse_quote_header_info finds in the page, html.quote_summary is the
\* div#quote-summary element with the rows of its table, None if the page
\* has no such element.
page_GOOG ==
    [ok |-> TRUE,
     html |-> [header |-> Quote("Alphabet Inc.", 11),
               quote_summary |-> Element([class |-> "dict", open |-> 10,
                                          days_range |-> RangeText(9, 12),
                                          fifty_two_week_range |-> RangeText(5, 20)])]]
page_GOOGL ==
    [ok |-> TRUE,
     html |-> [header |-> Quote("Alphabet Inc. A", 13),
               quote_summary |-> Element([class |-> "dict", open |-> 12,
                                          days_range |-> RangeText(11, 14),
                                          fifty_two_week_range |-> RangeText(6, 22)])]]
page_AAPL ==
    [ok |-> TRUE,
     html |-> [header |-> Quote("Apple Inc.", 21),
               quote_summary |-> Element([class |-> "dict", open |-> 20,
                                          days_range |-> RangeText(19, 23),
                                          fifty_two_week_range |-> RangeText(8, 30)])]]
page_DEAD ==
    [ok |-> TRUE,
     html |-> [header |-> Quote("Dead Corp.", 0), quote_summary |-> None]]
page_NEWT ==
    [ok |-> TRUE,
     html |-> [header |-> Quote("Newt Ltd.", 41),
               quote_summary |-> Element([class |-> "dict", open |-> 40,
                                          days_range |-> RangeText(39, 42),
                                          fifty_two_week_range |-> RangeText(35, 50)])]]
page_EMPT ==
    [ok |-> TRUE,
     html |-> [header |-> Quote("Empty Corp.", 51),
               quote_summary |-> Element([class |-> "dict"])]]
page_NOQT ==
    [ok |-> TRUE,
     html |-> [header |-> None,
               quote_summary |-> Element([class |-> "dict", open |-> 30,
                                          days_range |-> RangeText(29, 31),
                                          fifty_two_week_range |-> RangeText(25, 33)])]]
page_VOID == [ok |-> TRUE, html |-> [header |-> None, quote_summary |-> None]]
page_not_found == [ok |-> FALSE, html |-> [header |-> None, quote_summary |-> None]]

\* requestor.requestor(url): the response for the quote page of a symbol.
requestor(symbol) ==
    CASE symbol \in {GOOG, goog} -> page_GOOG
      [] symbol = GOOGL -> page_GOOGL
      [] symbol = AAPL -> page_AAPL
      [] symbol = DEAD -> page_DEAD
      [] symbol = NEWT -> page_NEWT
      [] symbol = EMPT -> page_EMPT
      [] symbol = NOQT -> page_NOQT
      [] symbol = VOID -> page_VOID
      [] OTHER -> page_not_found

\* quote.parse_quote_header_info(html)
parse_quote_header_info(html) == html.header

\* A Python bool.
Bool(b) == [class |-> "bool", value |-> b]

\* Python truthiness of the values the code tests: None is false, a bool
\* is its value, a dict is true if it has an entry, any other object of the
\* model is true.
Truthy(v) ==
    CASE v.class = "NoneType" -> FALSE
      [] v.class = "bool" -> v.value
      [] v.class = "dict" -> DOMAIN v # {"class"}
      [] OTHER -> TRUE

\* cleaner.table_cleaner(element): the dict of the rows of the table.
table_cleaner(element) == element.rows

(***************************************************************************)
(* SummaryPage                                                             *)
(***************************************************************************)
\* cleaner.CommonCleaners.clean_symbol
clean_symbol(value) == Upper(value)

\* cleaner.CommonCleaners.clean_first_value_split_by_dash
clean_first_value_split_by_dash(value) == parse_number(strip(split(value, 45)[1]))

\* cleaner.CommonCleaners.clean_second_value_split_by_dash
clean_second_value_split_by_dash(value) == parse_number(strip(split(value, 45)[2]))

\* SummaryPage(**ChainMap(quote_data.dict(), summary_page_data)) with
\* data["symbol"] = symbol and data["quote"] = quote_data.  The tables of
\* the data source have the rows open, days_range and fifty_two_week_range
\* and its quote headers the name and the close: every other field, all of
\* them Optional, is None.
SummaryPage(symbol, quote_data, summary_page_data) ==
    [class |-> "SummaryPage",
     symbol |-> clean_symbol(symbol),
     name |-> quote_data.name,
     quote |-> quote_data,
     open |-> summary_page_data.open,
     high |-> clean_first_value_split_by_dash(summary_page_data.days_range),
     low |-> clean_second_value_split_by_dash(summary_page_data.days_range),
     close |-> quote_data.close,
     change |-> None,
     percent_change |-> None,
     previous_close |-> None,
     bid_price |-> None,
     bid_size |-> None,
     ask_price |-> None,
     ask_size |-> None,
     fifty_two_week_low |->
         clean_second_value_split_by_dash(summary_page_data.fifty_two_week_range),
     fifty_two_week_high |->
         clean_first_value_split_by_dash(summary_page_data.fifty_two_week_range),
     volume |-> None,
     average_volume |-> None,
     market_cap |-> None,
     beta_five_year_monthly |-> None,
     pe_ratio_ttm |-> None,
     eps_ttm |-> None,
     earnings_date |-> None,
     forward_dividend_yield |-> None,
     forward_dividend_yield_percentage |-> None,
     exdividend_date |-> None,
     one_year_target_est |-> None]

\* The fields of a SummaryPage as .dict() lists them.
SummaryPageFields ==
    {"symbol", "name", "quote", "open", "high", "low", "close", "change",
     "percent_change", "previous_close", "bid_price", "bid_size", "ask_price",
     "ask_size", "fifty_two_week_low", "fifty_two_week_high", "volume",
     "average_volume", "market_cap", "beta_five_year_monthly", "pe_ratio_ttm",
     "eps_ttm", "earnings_date", "forward_dividend_yield",
     "forward_dividend_yield_percentage", "exdividend_date",
     "one_year_target_est"}

\* SummaryPage.__lt__ with the comparison turned round.
SummaryPageLt_reversed(self, other) ==
    IF other.class = self.class THEN Bool(StrLt(other.symbol, self.symbol)) ELSE None

\* SummaryPage.__lt__
SummaryPageLt(self, other) ==
    IF other.class = self.class THEN Bool(StrLt(self.symbol, other.symbol)) ELSE None

\* parse_summary_table(html)
parse_summary_table(html) ==
    IF Truthy(html.quote_summary) THEN table_cleaner(html.quote_summary) ELSE None

(***************************************************************************)
(* SummaryPageGroup: the value of its pages list, and its methods as       *)
(* functions of that value.                                                *)
(***************************************************************************)
\* SummaryPageGroup.append without the class check.
SummaryPageGroup_append_any(pages, page) ==
    [pages |-> Append(pages, page), raised |-> None]

\* SummaryPageGroup.append: the pages after the call and what it raised.
SummaryPageGroup_append(pages, page) ==
    IF page.class = "SummaryPage"
    THEN [pages |-> Append(pages, page), raised |-> None]
    ELSE [pages |-> pages, raised |-> Raised("AttributeError")]

\* SummaryPageGroup.symbols
SummaryPageGroup_symbols(pages) == [i \in DOMAIN pages |-> pages[i].symbol]

\* The interpreters the program runs under, told apart by their list sort:
\* CPython 3.13 finds the first run of a list in another way than CPython
\* 3.9 to 3.12 do.
CPython_3_12 == "CPython 3.9 to 3.12"
CPython_3_13 == "CPython 3.13"
Interpreters == {CPython_3_12, CPython_3_13}

VARIABLE interpreter    \* the interpreter that runs the program

\* The test the list sort makes of two elements: the truth value of x < y.
ISLT(x, y) == Truthy(SummaryPageLt(x, y))

\* The list a with the n elements from position lo on in reverse order.
reverse_slice(a, lo, n) ==
    [i \in DOMAIN a |-> IF lo <= i /\ i < lo + n THEN a[2 * lo + n - 1 - i] ELSE a[i]]

\* The length of the longest prefix of a, of n elements at least, in which no
\* element is less than the one before it.
RECURSIVE ascending_end(_, _)
ascending_end(a, n) ==
    IF n < Len(a) /\ ~ISLT(a[n + 1], a[n]) THEN ascending_end(a, n + 1) ELSE n

\* CPython 3.13, REVERSE_LAST_NEQ: the last neq + 1 of the first n elements
\* are equal and are reversed in
\* place, so that the reversal of the whole run restores their order.
reverse_last_neq(a, n, neq) ==
    IF neq = 0 THEN a ELSE reverse_slice(a, n - neq, neq + 1)

\* CPython 3.13: the descending run of a, in which an element may equal the
\* one before it, is followed from its first n elements on.
RECURSIVE descending_run(_, _, _)
descending_run(a, n, neq) ==
    IF n >= Len(a) THEN [keys |-> reverse_last_neq(a, n, neq), n |-> n]
    ELSE IF ISLT(a[n + 1], a[n])
         THEN descending_run(reverse_last_neq(a, n, neq), n + 1, 0)
    ELSE IF ISLT(a[n], a[n + 1])
         THEN [keys |-> reverse_last_neq(a, n, neq), n |-> n]
    ELSE descending_run(a, n + 1, neq + 1)

\* count_run of CPython 3.13: the run a starts with, an ascending one or a
\* descending one with its equal elements, which is reversed and then
\* extended: the list then, and the length of the run.
count_run_3_13(a) ==
    LET n == ascending_end(a, 1)
    IN  IF n = Len(a) \/ (n > 1 /\ ISLT(a[1], a[n]))
        THEN [keys |-> a, n |-> n]
        ELSE LET run == descending_run(IF n > 1 THEN reverse_slice(a, 1, n) ELSE a,
                                       n + 1, 0)
                 ascending == reverse_slice(run.keys, 1, run.n)
             IN  [keys |-> ascending, n |-> ascending_end(ascending, run.n)]

\* The length of the longest prefix of a, of n elements at least, in which
\* every element is less than the one before it.
RECURSIVE descending_end(_, _)
descending_end(a, n) ==
    IF n < Len(a) /\ ISLT(a[n + 1], a[n]) THEN descending_end(a, n + 1) ELSE n

\* count_run of CPython 3.9 to 3.12: the first comparison decides between a
\* strictly descending run, which is reversed, and an ascending one.
count_run_3_12(a) ==
    IF ISLT(a[2], a[1])
    THEN LET n == descending_end(a, 2)
         IN  [keys |-> reverse_slice(a, 1, n), n |-> n]
    ELSE [keys |-> a, n |-> ascending_end(a, 2)]

\* The run finder of the list sort, which depends on the interpreter.
count_run(a) ==
    IF interpreter = CPython_3_13 THEN count_run_3_13(a) ELSE count_run_3_12(a)

\* The number of elements of a that stay before the pivot: a binary search
\* between L and R.
RECURSIVE insertion_point(_, _, _, _)
insertion_point(a, pivot, L, R) ==
    IF L >= R THEN L
    ELSE LET M == (L + R) \div 2
         IN  IF ISLT(pivot, a[M + 1])
             THEN insertion_point(a, pivot, L, M)
             ELSE insertion_point(a, pivot, M + 1, R)

\* Binary insertion sort of a, whose first ok elements are in order.
RECURSIVE binarysort(_, _)
binarysort(a, ok) ==
    IF ok >= Len(a) THEN a
    ELSE LET pivot == a[ok + 1]
             L == insertion_point(a, pivot, 0, ok)
         IN  binarysort([i \in DOMAIN a |->
                            IF i <= L THEN a[i]
                            ELSE IF i = L + 1 THEN pivot
                            ELSE IF i <= ok + 1 THEN a[i - 1]
                            ELSE a[i]],
                        ok + 1)

\* sorted(pages) by SummaryPage.__lt__: the list sort of the interpreter on a
\* list of fewer than 64 elements, which finds the first run and inserts the
\* elements after it one by one.
sorted(pages) ==
    IF Len(pages) < 2 THEN pages
    ELSE LET run == count_run(pages) IN binarysort(run.keys, run.n)

\* SummaryPageGroup.sort: the pages after the call.
SummaryPageGroup_sort(pages) == sorted(pages)

\* SummaryPageGroup.__len__
SummaryPageGroup_len(pages) == Len(pages)

\* SummaryPageGroup.__iter__: the pages iter(self.pages) yields, in order.
SummaryPageGroup_iter(pages) == [i \in 1..Len(pages) |-> pages[i]]

\* DataFrame.from_dict(pages): one row per page, one column per field.
DataFrame_from_dict(pages) ==
    [class |-> "DataFrame",
     index |-> [i \in DOMAIN pages |-> i],
     columns |-> SummaryPageFields,
     rows |-> [i \in DOMAIN pages |-> [c \in SummaryPageFields |-> pages[i][c]]]]

\* DataFrame.set_index(column): the column becomes the row key.
DataFrame_set_index(frame, column) ==
    [frame EXCEPT
        !.index = [i \in DOMAIN frame.rows |-> frame.rows[i][column]],
        !.columns = frame.columns \ {column},
        !.rows = [i \in DOMAIN frame.rows |->
                    [c \in frame.columns \ {column} |-> frame.rows[i][c]]]]

\* DataFrame.drop(column, axis=1)
DataFrame_drop(frame, column) ==
    [frame EXCEPT
        !.columns = frame.columns \ {column},
        !.rows = [i \in DOMAIN frame.rows |->
                    [c \in frame.columns \ {column} |-> frame.rows[i][c]]]]

\* The row positions of a frame in ascending order of their keys.
RECURSIVE InsertKey(_, _, _)
InsertKey(i, order, index) ==
    IF order = <<>> THEN <<i>>
    ELSE IF StrLt(index[i], index[Head(order)]) THEN <<i>> \o order
    ELSE <<Head(order)>> \o InsertKey(i, Tail(order), index)

RECURSIVE KeyOrder(_, _)
KeyOrder(n, index) ==
    IF n = 0 THEN <<>> ELSE InsertKey(n, KeyOrder(n - 1, index), index)

\* SummaryPageGroup.dataframe without the call of sort_index.
DataFrame_sort_index_skipped(frame) == frame

\* DataFrame.sort_index()
DataFrame_sort_index(frame) ==
    LET order == KeyOrder(Len(frame.index), frame.index)
    IN  [frame EXCEPT
            !.index = [i \in DOMAIN order |-> frame.index[order[i]]],
            !.rows = [i \in DOMAIN order |-> frame.rows[order[i]]]]

\* SummaryPageGroup.dataframe
SummaryPageGroup_dataframe(pages) ==
    IF pages # <<>>
    THEN DataFrame_sort_index(
            DataFrame_drop(
                DataFrame_set_index(DataFrame_from_dict(pages), "symbol"),
                "quote"))
    ELSE None

(***************************************************************************)
(* get_summary_page                                                        *)
(***************************************************************************)
\* The match of the lookup ignored: the page of the symbol as given.
fuzzy_symbol_ignored(symbol, fuzzy_response) == symbol

\* if fuzzy_response: symbol = fuzzy_response.symbol
fuzzy_symbol(symbol, fuzzy_response) ==
    IF Truthy(fuzzy_response) THEN fuzzy_response.symbol ELSE symbol

\* get_summary_page with the test of page_not_found_ok inverted.
get_summary_page_inverted(symbol, use_fuzzy_search, page_not_found_ok) ==
    LET fuzzy_response == IF use_fuzzy_search THEN fuzzy_search(symbol) ELSE None
        target == fuzzy_symbol(symbol, fuzzy_response)
        response == requestor(target)
        quote_data == parse_quote_header_info(response.html)
        summary_page_data == parse_summary_table(response.html)
    IN  IF IsRaised(fuzzy_response) THEN fuzzy_response
        ELSE IF response.ok /\ Truthy(quote_data) /\ Truthy(summary_page_data)
        THEN SummaryPage(target, quote_data, summary_page_data)
        ELSE IF ~page_not_found_ok THEN None
        ELSE Raised("SummaryPageNotFound")

\* The value get_summary_page returns, or the error it raises.
get_summary_page(symbol, use_fuzzy_search, page_not_found_ok) ==
    LET fuzzy_response == IF use_fuzzy_search THEN fuzzy_search(symbol) ELSE None
        target == fuzzy_symbol(symbol, fuzzy_response)
        response == requestor(target)
        quote_data == parse_quote_header_info(response.html)
        summary_page_data == parse_summary_table(response.html)
    IN  IF IsRaised(fuzzy_response) THEN fuzzy_response
        ELSE IF response.ok /\ Truthy(quote_data) /\ Truthy(summary_page_data)
        THEN SummaryPage(target, quote_data, summary_page_data)
        ELSE IF page_not_found_ok THEN None
        ELSE Raised("SummaryPageNotFound")

\* get_summary_page on every symbol of the data source and every setting of
\* its flags: the data source is fixed, so each call is evaluated once.
get_summary_page_results ==
    [symbol \in SingleSymbols |->
        [use_fuzzy_search \in BOOLEAN |->
            [page_not_found_ok \in BOOLEAN |->
                get_summary_page(symbol, use_fuzzy_search, page_not_found_ok)]]]

(***************************************************************************)
(* The calls a run makes, counted per function and argument.               *)
(***************************************************************************)
\* Neither function has been called yet.
NoCalls == [fuzzy_search |-> <<>>, get_summary_page |-> <<>>]

\* One more call with the argument s.
Invoke(bag, s) ==
    IF s \in DOMAIN bag THEN [bag EXCEPT ![s] = @ + 1] ELSE bag @@ (s :> 1)

\* fuzzy_search(symbol, first_ticker=True, ...) is entered.
call_fuzzy_search(c, symbol) == [c EXCEPT !.fuzzy_search = Invoke(@, symbol)]

\* get_summary_page(symbol, use_fuzzy_search, ...) is entered: it calls
\* fuzzy_search itself if use_fuzzy_search.
call_get_summary_page(c, symbol, use_fuzzy_search) ==
    LET entered == [c EXCEPT !.get_summary_page = Invoke(@, symbol)]
    IN  IF use_fuzzy_search THEN call_fuzzy_search(entered, symbol) ELSE entered

(***************************************************************************)
(* State                                                                   *)
(***************************************************************************)
VARIABLES
    args,           \* the arguments of the batch call in progress
    pc,             \* where get_multiple_summary_pages stands
    symbols,        \* its local list symbols
    resolve_units,  \* the state of each fuzzy_search call of the first pass
    fetch_units,    \* the state of each get_summary_page call of the second
    valid_symbols,  \* its local valid_symbols: what is left to read in it
    summary_pages,  \* the pages of its SummaryPageGroup summary_pages
    outcome,        \* what the call returned or raised
    prev,           \* the outcome of the call before this one
    resolve_pbar,   \* the progress bar of the first pass, None if there is none
    fetch_pbar,     \* the progress bar of the second pass
    calls,          \* how often fuzzy_search and get_summary_page were called
    default_pages,  \* the default of the field pages of SummaryPageGroup
    group,          \* the pages of a SummaryPageGroup a caller builds by hand
    last            \* the last operation of that caller and its result

vars == <<args, pc, symbols, resolve_units, fetch_units, valid_symbols,
          summary_pages, outcome, prev, resolve_pbar, fetch_pbar, calls,
          default_pages, group, last, interpreter>>

batch_vars == <<args, pc, symbols, resolve_units, fetch_units, valid_symbols,
                summary_pages, outcome, prev, resolve_pbar, fetch_pbar, calls,
                default_pages>>

user_vars == <<group, last, interpreter>>

(***************************************************************************)
(* A caller that fetches single pages and builds a SummaryPageGroup.       *)
(***************************************************************************)
\* The SummaryPage objects the caller holds: the pages of the data source.
UserPages == {get_summary_page(s, FALSE, TRUE) : s \in {AAPL, GOOG, GOOGL}}

\* Objects that are not of class SummaryPage: None, a str, the dict of a
\* page, and an instance of a subclass of SummaryPage.
NonPages ==
    {None,
     [class |-> "str", value |-> GOOG],
     [get_summary_page(AAPL, FALSE, TRUE) EXCEPT !.class = "dict"],
     [get_summary_page(GOOG, FALSE, TRUE) EXCEPT !.class = "SummaryPageSubclass"]}

\* An instance of a subclass of SummaryPage the caller has defined.
SubclassPages ==
    {[get_summary_page(GOOG, FALSE, TRUE) EXCEPT !.class = "SummaryPageSubclass"]}

Operation(op, arg, result) ==
    [op |-> op, prior |-> last.op, arg |-> arg, before |-> group, result |-> result,
     calls |-> NoCalls]

\* get_summary_page(symbol, use_fuzzy_search, page_not_found_ok).  The
\* function neither reads nor changes a SummaryPageGroup, so the caller's
\* single fetches are taken before the group is filled.
UserGetSummaryPage ==
    /\ pc = "idle"
    /\ group = <<>>
    /\ \E s \in SingleSymbols, f \in BOOLEAN, ok \in BOOLEAN :
          last' = [Operation("get_summary_page",
                             [symbol |-> s, use_fuzzy_search |-> f,
                              page_not_found_ok |-> ok],
                             get_summary_page(s, f, ok))
                      EXCEPT !.calls = call_get_summary_page(NoCalls, s, f)]
    /\ UNCHANGED <<group, interpreter, batch_vars>>

\* group.append(page)
UserAppend ==
    /\ pc = "idle"
    /\ Len(group) < MaxPages
    /\ \E page \in UserPages \cup NonPages :
          LET r == SummaryPageGroup_append(group, page)
          IN  /\ group' = r.pages
              /\ last' = Operation("append", page, r.raised)
    /\ UNCHANGED <<interpreter, batch_vars>>

\* group.pages.append(page): the list in the field pages is open to the
\* caller, and list.append takes what SummaryPageGroup.append refuses.
UserPagesAppend ==
    /\ pc = "idle"
    /\ Len(group) < MaxPages
    /\ \E page \in SubclassPages :
          /\ group' = Append(group, page)
          /\ last' = Operation("pages.append", page, None)
    /\ UNCHANGED <<interpreter, batch_vars>>

\* group.sort()
UserSort ==
    /\ pc = "idle"
    /\ group' = SummaryPageGroup_sort(group)
    /\ last' = Operation("sort", None, None)
    /\ UNCHANGED <<interpreter, batch_vars>>

\* group.symbols
UserSymbols ==
    /\ pc = "idle"
    /\ last' = Operation("symbols", None, SummaryPageGroup_symbols(group))
    /\ UNCHANGED <<group, interpreter, batch_vars>>

\* len(group)
UserLen ==
    /\ pc = "idle"
    /\ last' = Operation("len", None, SummaryPageGroup_len(group))
    /\ UNCHANGED <<group, interpreter, batch_vars>>

\* for page in group
UserIter ==
    /\ pc = "idle"
    /\ last' = Operation("iter", None, SummaryPageGroup_iter(group))
    /\ UNCHANGED <<group, interpreter, batch_vars>>

\* page.__lt__(other).  The comparison reads no group either.
UserLt ==
    /\ pc = "idle"
    /\ group = <<>>
    /\ \E page \in UserPages, other \in UserPages \cup NonPages :
          last' = Operation("__lt__", [self |-> page, other |-> other],
                            SummaryPageLt(page, other))
    /\ UNCHANGED <<group, interpreter, batch_vars>>

\* group.dataframe
UserDataframe ==
    /\ pc = "idle"
    /\ last' = Operation("dataframe", None, SummaryPageGroup_dataframe(group))
    /\ UNCHANGED <<group, interpreter, batch_vars>>

NotReturned == [kind |-> "pending"]
NoCall == [kind |-> "none"]
\* pages: List[SummaryPage] = list()
SummaryPageGroup_pages_default == <<>>

UserInit ==
    /\ args = [symbols |-> <<>>, use_fuzzy_search |-> TRUE,
               page_not_found_ok |-> TRUE, with_threads |-> FALSE,
               thread_count |-> DefaultThreadCount, progress_bar |-> TRUE]
    /\ pc = "idle"
    /\ symbols = <<>>
    /\ resolve_units = <<>>
    /\ fetch_units = <<>>
    /\ valid_symbols = <<>>
    /\ summary_pages = <<>>
    /\ outcome = NotReturned
    /\ prev = NoCall
    /\ resolve_pbar = None
    /\ fetch_pbar = None
    /\ calls = NoCalls
    /\ default_pages = SummaryPageGroup_pages_default
    /\ group = <<>>
    /\ last = [op |-> "SummaryPageGroup", prior |-> "none", arg |-> None,
               before |-> <<>>, result |-> None, calls |-> NoCalls]
    /\ interpreter \in Interpreters

UserNext ==
    \/ UserGetSummaryPage
    \/ UserAppend
    \/ UserPagesAppend
    \/ UserSort
    \/ UserSymbols
    \/ UserLen
    \/ UserIter
    \/ UserLt
    \/ UserDataframe

UserSpec == UserInit /\ [][UserNext]_vars

(***************************************************************************)
(* get_multiple_summary_pages                                              *)
(***************************************************************************)
Returned(value) == [kind |-> "returned", value |-> value]
RaisedOutcome(error) == [kind |-> "raised", error |-> error]

\* list(set(xs)): a list of the distinct elements of xs, in any order.
ListOfSet(S) ==
    {f \in [1..Cardinality(S) -> S] : Range(f) = S}

\* symbols = list(set(symbols))
unique_symbols(xs) == ListOfSet(Range(xs))

\* The resolved symbols without the set(): one entry per match.
resolved_symbols_repeated(results) ==
    LET matches == SelectSeq(results, LAMBDA r : r # None)
    IN  {[i \in DOMAIN matches |-> matches[i].symbol]}

\* The resolved symbols without the filter: a lookup that found nothing
\* is kept, and s.symbol read with getattr(s, "symbol", None) becomes the
\* text "None" in the url.
resolved_symbols_unfiltered(results) ==
    ListOfSet({IF results[i] = None THEN <<78, 111, 110, 101>> ELSE results[i].symbol :
                  i \in DOMAIN results})

\* valid_symbols = filter(lambda s: s is not None, valid_symbols)
\* symbols = list(set(s.symbol for s in valid_symbols))
resolved_symbols(results) ==
    ListOfSet({results[i].symbol : i \in {j \in DOMAIN results : results[j] # None}})

\* The return without the test of the length.
batch_return_always(pages) == [class |-> "SummaryPageGroup", pages |-> pages]

\* if len(summary_pages) > 0: return summary_pages / return None
batch_return(pages) ==
    IF SummaryPageGroup_len(pages) > 0
    THEN [class |-> "SummaryPageGroup", pages |-> pages]
    ELSE None

\* The append replaced by an assignment of the latest page.
append_result_overwrite(pages, results) ==
    IF Truthy(results) THEN <<results>> ELSE pages

\* if results: summary_pages.append(results)
append_result(pages, results) ==
    IF Truthy(results) THEN SummaryPageGroup_append(pages, results).pages ELSE pages

\* The units of work of a pass: one per element of the list, none started.
Submitted(syms) == [i \in 1..Len(syms) |-> "pending"]

Running(units) == {i \in DOMAIN units : units[i] = "running"}
Pending(units) == {i \in DOMAIN units : units[i] = "pending"}
\* The next element of the loop without threads: the first unit not yet
\* started.
FirstPending(units) == CHOOSE i \in Pending(units) : \A j \in Pending(units) : i <= j
\* The loop over the futures left as soon as every call has finished.
LastToCollect_finished(units, i) ==
    \A j \in DOMAIN units \ {i} : units[j] \in {"collected", "done"}

\* Every unit other than i has had its result appended.
LastToCollect(units, i) == \A j \in DOMAIN units \ {i} : units[j] = "collected"
\* The pool with one worker more than max_workers.
WorkerIdle_one_more(units, i, thread_count) ==
    Cardinality(Running(units)) + Cardinality({j \in Pending(units) : j < i})
        <= thread_count

\* ThreadPoolExecutor(max_workers=thread_count): each of its at most
\* thread_count workers takes one call at a time off the queue, in the order
\* of submission, and enters it when it is scheduled.  The call of unit i
\* can be entered if a worker holds it: the workers that run a call and
\* those that hold the calls queued ahead of it leave one over.
WorkerIdle(units, i, thread_count) ==
    Cardinality(Running(units)) + Cardinality({j \in Pending(units) : j < i})
        < thread_count

\* The with block left by shutdown(wait=False).
PoolJoined_no_wait(units) == TRUE

\* ThreadPoolExecutor.__exit__: shutdown(wait=True) returns when every
\* submitted call has run.
PoolJoined(units) == Pending(units) = {} /\ Running(units) = {}

\* The error the coordinator saw when it retrieved a result.
RetrievedError(units, results(_)) ==
    LET i == CHOOSE j \in DOMAIN units : units[j] = "raised" IN results(i).error

\* pbar = enlighten.Counter(total=total, ...), created only if progress_bar.
new_pbar(progress_bar, total) ==
    IF progress_bar THEN [class |-> "Counter", total |-> total, count |-> 0] ELSE None

\* The counter advanced by two for one unit.
pbar_update_twice(progress_bar, pbar) ==
    IF progress_bar THEN [pbar EXCEPT !.count = @ + 2] ELSE pbar

\* if progress_bar: pbar.update()
pbar_update(progress_bar, pbar) ==
    IF progress_bar THEN [pbar EXCEPT !.count = @ + 1] ELSE pbar

\* The second pass with the fuzzy search left on.
fetch_use_fuzzy_search_on == TRUE

\* The second pass calls get_summary_page(symbol, use_fuzzy_search=False, ...).
fetch_use_fuzzy_search == FALSE

\* summary_pages = SummaryPageGroup(): the field pages starts as a copy of
\* its default.
SummaryPageGroup_init(default) == default

\* The default used as the list of every group: an append shows in it.
default_after_append_shared(default, pages) == pages

\* The default of the field after an append to the pages of a group: the
\* group holds its own copy, the default stays as it was.
default_after_append(default, pages) == default

\* The return statement of either download function.
Return ==
    /\ pc' = "done"
    /\ outcome' = Returned(batch_return(summary_pages'))

\* The second pass begins: one call of get_summary_page per symbol.  Without
\* threads the progress bar is created before the loop; with threads the
\* calls are submitted to the pool first, and its workers run while the
\* coordinator goes on to create the progress bar.
BeginFetchPass(syms) ==
    /\ symbols' = syms
    /\ fetch_units' = Submitted(syms)
    /\ IF args.with_threads
       THEN fetch_pbar' = None /\ pc' = "fetch_submitted" /\ outcome' = outcome
       ELSE /\ fetch_pbar' = new_pbar(args.progress_bar, Len(syms))
            /\ IF Len(syms) = 0
               THEN Return
               ELSE pc' = "fetch" /\ outcome' = outcome

\* The first pass is over with these results: keep the matches, drop the
\* repeats.  valid_symbols is bound to the filter object, and making the set
\* reads that to its end: nothing is left in it.
EndResolvePass(results) ==
    /\ valid_symbols' = <<>>
    /\ \E syms \in resolved_symbols(results) : BeginFetchPass(syms)

\* The first pass begins: one call of fuzzy_search per symbol.
BeginResolvePass(syms) ==
    /\ resolve_units' = Submitted(syms)
    /\ IF args.with_threads
       THEN /\ resolve_pbar' = None
            /\ valid_symbols' = <<>>
            /\ pc' = "resolve_submitted"
            /\ symbols' = syms
            /\ fetch_units' = <<>>
            /\ fetch_pbar' = None
            /\ outcome' = outcome
       ELSE /\ resolve_pbar' = new_pbar(args.progress_bar, Len(syms))
            /\ IF Len(syms) = 0
               THEN EndResolvePass(<<>>)
               ELSE /\ pc' = "resolve"
                    /\ valid_symbols' = <<>>
                    /\ symbols' = syms
                    /\ fetch_units' = <<>>
                    /\ fetch_pbar' = None
                    /\ outcome' = outcome

\* get_multiple_summary_pages is entered: the input is deduplicated, the
\* download function creates its SummaryPageGroup and starts its first loop.
Call ==
    /\ pc = "call"
    /\ summary_pages' = SummaryPageGroup_init(default_pages)
    /\ \E syms \in unique_symbols(args.symbols) :
          IF args.use_fuzzy_search
          THEN BeginResolvePass(syms)
          ELSE /\ resolve_units' = <<>>
               /\ resolve_pbar' = None
               /\ valid_symbols' = <<>>
               /\ BeginFetchPass(syms)
    /\ UNCHANGED <<args, prev, calls, default_pages, user_vars>>

(***************************************************************************)
(* _download_summary_pages_without_threads                                 *)
(***************************************************************************)
\* for symbol in symbols: fuzzy_search(symbol, ...) is called
SeqResolveCall ==
    /\ pc = "resolve"
    /\ ~args.with_threads
    /\ Running(resolve_units) = {}
    /\ resolve_units' = [resolve_units EXCEPT ![FirstPending(resolve_units)] = "running"]
    /\ calls' = call_fuzzy_search(calls, symbols[FirstPending(resolve_units)])
    /\ UNCHANGED <<args, pc, symbols, fetch_units, valid_symbols, summary_pages,
                   outcome, prev, resolve_pbar, fetch_pbar, default_pages, user_vars>>

\* ... and returns: valid_symbols.append(result); after the last symbol the
\* matches are filtered and deduplicated and the second loop starts.
SeqResolveReturn ==
    /\ pc = "resolve"
    /\ ~args.with_threads
    /\ summary_pages' = summary_pages
    /\ \E i \in Running(resolve_units) :
          LET result == fuzzy_search(symbols[i])
          IN  IF IsRaised(result)
              THEN /\ resolve_units' = [resolve_units EXCEPT ![i] = "raised"]
                   /\ pc' = "done"
                   /\ outcome' = RaisedOutcome(result.error)
                   /\ UNCHANGED <<symbols, fetch_units, valid_symbols,
                                  resolve_pbar, fetch_pbar>>
              ELSE /\ resolve_units' = [resolve_units EXCEPT ![i] = "collected"]
                   /\ resolve_pbar' = pbar_update(args.progress_bar, resolve_pbar)
                   /\ IF i = Len(symbols)
                      THEN EndResolvePass(Append(valid_symbols, result))
                      ELSE /\ valid_symbols' = Append(valid_symbols, result)
                           /\ UNCHANGED <<pc, symbols, fetch_units, outcome,
                                          fetch_pbar>>
    /\ UNCHANGED <<args, prev, calls, default_pages, user_vars>>

\* for symbol in symbols: get_summary_page(symbol, use_fuzzy_search=False,
\* page_not_found_ok=page_not_found_ok) is called
SeqFetchCall ==
    /\ pc = "fetch"
    /\ ~args.with_threads
    /\ Running(fetch_units) = {}
    /\ fetch_units' = [fetch_units EXCEPT ![FirstPending(fetch_units)] = "running"]
    /\ calls' = call_get_summary_page(calls, symbols[FirstPending(fetch_units)],
                                      fetch_use_fuzzy_search)
    /\ UNCHANGED <<args, pc, symbols, resolve_units, valid_symbols, summary_pages,
                   outcome, prev, resolve_pbar, fetch_pbar, default_pages, user_vars>>

\* ... and returns: a page is appended; after the last symbol the function
\* returns.
SeqFetchReturn ==
    /\ pc = "fetch"
    /\ ~args.with_threads
    /\ \E i \in Running(fetch_units) :
          LET results == get_summary_page_results[symbols[i]][fetch_use_fuzzy_search]
                                                  [args.page_not_found_ok]
          IN  IF IsRaised(results)
              THEN /\ fetch_units' = [fetch_units EXCEPT ![i] = "raised"]
                   /\ pc' = "done"
                   /\ outcome' = RaisedOutcome(results.error)
                   /\ UNCHANGED <<summary_pages, fetch_pbar, default_pages>>
              ELSE /\ fetch_units' = [fetch_units EXCEPT ![i] = "collected"]
                   /\ summary_pages' = append_result(summary_pages, results)
                   /\ default_pages' = default_after_append(default_pages, summary_pages')
                   /\ fetch_pbar' = pbar_update(args.progress_bar, fetch_pbar)
                   /\ IF i = Len(symbols)
                      THEN Return
                      ELSE UNCHANGED <<pc, outcome>>
    /\ UNCHANGED <<args, symbols, resolve_units, valid_symbols, prev, resolve_pbar,
                   calls, user_vars>>

(***************************************************************************)
(* _download_summary_pages_with_threads                                    *)
(***************************************************************************)
\* The units of the pass the coordinator is in.
InResolvePass == pc \in {"resolve_submitted", "resolve", "resolve_shutdown"}
InFetchPass == pc \in {"fetch_submitted", "fetch", "fetch_shutdown"}

\* if progress_bar: pbar = enlighten.Counter(total=len(futures), ...), after
\* the fuzzy_search calls were submitted; with no future the loop is over at
\* once and the second pass begins.
ResolvePbar ==
    /\ pc = "resolve_submitted"
    /\ resolve_pbar' = new_pbar(args.progress_bar, Len(resolve_units))
    /\ summary_pages' = summary_pages
    /\ IF Len(resolve_units) = 0
       THEN EndResolvePass(valid_symbols)
       ELSE /\ pc' = "resolve"
            /\ UNCHANGED <<valid_symbols, symbols, fetch_units, fetch_pbar, outcome>>
    /\ UNCHANGED <<args, resolve_units, prev, calls, default_pages, user_vars>>

\* if progress_bar: pbar = enlighten.Counter(total=len(futures), ...), after
\* the get_summary_page calls were submitted; with no future the function
\* returns.
FetchPbar ==
    /\ pc = "fetch_submitted"
    /\ fetch_pbar' = new_pbar(args.progress_bar, Len(fetch_units))
    /\ summary_pages' = summary_pages
    /\ IF Len(fetch_units) = 0
       THEN Return
       ELSE pc' = "fetch" /\ outcome' = outcome
    /\ UNCHANGED <<args, symbols, resolve_units, fetch_units, valid_symbols, prev,
                   resolve_pbar, calls, default_pages, user_vars>>

\* A worker of the pool enters the fuzzy_search call it has taken off the
\* queue; the pool has at most thread_count workers.
ResolveWorkerStart ==
    /\ InResolvePass
    /\ args.with_threads
    /\ \E i \in Pending(resolve_units) :
          /\ WorkerIdle(resolve_units, i, args.thread_count)
          /\ resolve_units' = [resolve_units EXCEPT ![i] = "running"]
          /\ calls' = call_fuzzy_search(calls, symbols[i])
    /\ UNCHANGED <<args, pc, symbols, fetch_units, valid_symbols, summary_pages,
                   outcome, prev, resolve_pbar, fetch_pbar, default_pages, user_vars>>

\* A fuzzy_search call finishes; its future holds the result or the error.
ResolveWorkerFinish ==
    /\ InResolvePass
    /\ args.with_threads
    /\ \E i \in Running(resolve_units) :
          resolve_units' = [resolve_units EXCEPT ![i] = "done"]
    /\ UNCHANGED <<args, pc, symbols, fetch_units, valid_symbols, summary_pages,
                   outcome, prev, resolve_pbar, fetch_pbar, calls, default_pages,
                   user_vars>>

\* for future in as_completed(futures): valid_symbols.append(future.result())
\* After the last future the pool is closed, the matches are filtered and
\* deduplicated and the calls of the second pass are submitted.
ResolveCollect ==
    /\ pc = "resolve"
    /\ args.with_threads
    /\ summary_pages' = summary_pages
    /\ \E i \in {j \in DOMAIN resolve_units : resolve_units[j] = "done"} :
          LET result == fuzzy_search(symbols[i])
          IN  IF IsRaised(result)
              THEN /\ resolve_units' = [resolve_units EXCEPT ![i] = "raised"]
                   /\ pc' = "resolve_shutdown"
                   /\ UNCHANGED <<symbols, fetch_units, valid_symbols, outcome,
                                  resolve_pbar, fetch_pbar>>
              ELSE /\ resolve_units' = [resolve_units EXCEPT ![i] = "collected"]
                   /\ resolve_pbar' = pbar_update(args.progress_bar, resolve_pbar)
                   /\ IF LastToCollect(resolve_units, i)
                      THEN EndResolvePass(Append(valid_symbols, result))
                      ELSE /\ valid_symbols' = Append(valid_symbols, result)
                           /\ UNCHANGED <<pc, symbols, fetch_units, outcome,
                                          fetch_pbar>>
    /\ UNCHANGED <<args, prev, calls, default_pages, user_vars>>

\* The error leaves the with block: the pool is shut down with wait=True,
\* so every submitted call has run when the error reaches the caller.
ResolveShutdown ==
    /\ pc = "resolve_shutdown"
    /\ PoolJoined(resolve_units)
    /\ pc' = "done"
    /\ outcome' = RaisedOutcome(
                    RetrievedError(resolve_units, LAMBDA i : fuzzy_search(symbols[i])))
    /\ UNCHANGED <<args, symbols, resolve_units, fetch_units, valid_symbols,
                   summary_pages, prev, resolve_pbar, fetch_pbar, calls,
                   default_pages, user_vars>>

\* A worker of the second pool enters the get_summary_page call it has
\* taken off the queue.
FetchWorkerStart ==
    /\ InFetchPass
    /\ args.with_threads
    /\ \E i \in Pending(fetch_units) :
          /\ WorkerIdle(fetch_units, i, args.thread_count)
          /\ fetch_units' = [fetch_units EXCEPT ![i] = "running"]
          /\ calls' = call_get_summary_page(calls, symbols[i], fetch_use_fuzzy_search)
    /\ UNCHANGED <<args, pc, symbols, resolve_units, valid_symbols, summary_pages,
                   outcome, prev, resolve_pbar, fetch_pbar, default_pages, user_vars>>

\* A get_summary_page call finishes.
FetchWorkerFinish ==
    /\ InFetchPass
    /\ args.with_threads
    /\ \E i \in Running(fetch_units) :
          fetch_units' = [fetch_units EXCEPT ![i] = "done"]
    /\ UNCHANGED <<args, pc, symbols, resolve_units, valid_symbols, summary_pages,
                   outcome, prev, resolve_pbar, fetch_pbar, calls, default_pages,
                   user_vars>>

\* for future in as_completed(futures): results = future.result();
\* if results: summary_pages.append(results).  After the last future the
\* function returns.
FetchCollect ==
    /\ pc = "fetch"
    /\ args.with_threads
    /\ \E i \in {j \in DOMAIN fetch_units : fetch_units[j] = "done"} :
          LET results == get_summary_page_results[symbols[i]][fetch_use_fuzzy_search]
                                                  [args.page_not_found_ok]
          IN  IF IsRaised(results)
              THEN /\ fetch_units' = [fetch_units EXCEPT ![i] = "raised"]
                   /\ pc' = "fetch_shutdown"
                   /\ UNCHANGED <<summary_pages, outcome, fetch_pbar, default_pages>>
              ELSE /\ fetch_units' = [fetch_units EXCEPT ![i] = "collected"]
                   /\ summary_pages' = append_result(summary_pages, results)
                   /\ default_pages' = default_after_append(default_pages, summary_pages')
                   /\ fetch_pbar' = pbar_update(args.progress_bar, fetch_pbar)
                   /\ IF LastToCollect(fetch_units, i)
                      THEN Return
                      ELSE UNCHANGED <<pc, outcome>>
    /\ UNCHANGED <<args, symbols, resolve_units, valid_symbols, prev, resolve_pbar,
                   calls, user_vars>>

\* The error leaves the with block of the second pass.
FetchShutdown ==
    /\ pc = "fetch_shutdown"
    /\ PoolJoined(fetch_units)
    /\ pc' = "done"
    /\ outcome' = RaisedOutcome(
                    RetrievedError(fetch_units,
                        LAMBDA i : get_summary_page_results[symbols[i]][fetch_use_fuzzy_search]
                                                            [args.page_not_found_ok]))
    /\ UNCHANGED <<args, symbols, resolve_units, fetch_units, valid_symbols,
                   summary_pages, prev, resolve_pbar, fetch_pbar, calls,
                   default_pages, user_vars>>

(***************************************************************************)
(* The batch specification: a call, and after a call with threads that    *)
(* returned the same call without threads.                                 *)
(***************************************************************************)
\* Lists of at most n elements of S.
SeqsUpTo(S, n) == UNION {[1..k -> S] : k \in 0..n}

\* The symbol lists a call is given.  The list is only ever read through
\* set(symbols), which forgets its order and its repeats, so one list stands
\* for all its reorderings; the lists with repeats are those of the two
\* spellings of GOOG.
SymbolLists ==
    {s \in SeqsUpTo(BatchSymbols, MaxSymbols) :
        /\ NonDecreasing(s)
        /\ Cardinality(Range(s)) = Len(s) \/ Range(s) \subseteq {GOOG, goog}}

\* The pool sizes a threaded call is given: a single worker, the largest
\* pool below the default, and the default.
ThreadCounts == {1, MaxThreads, DefaultThreadCount}

\* The caller, whose call with threads has returned, makes the same call
\* without threads.
CallAgain ==
    /\ pc = "done"
    /\ prev = NoCall
    /\ outcome.kind = "returned"
    /\ args.with_threads
    /\ args' = [args EXCEPT !.with_threads = FALSE]
    /\ prev' = outcome
    /\ pc' = "call"
    /\ symbols' = args.symbols
    /\ resolve_units' = <<>>
    /\ fetch_units' = <<>>
    /\ valid_symbols' = <<>>
    /\ summary_pages' = <<>>
    /\ outcome' = NotReturned
    /\ resolve_pbar' = None
    /\ fetch_pbar' = None
    /\ calls' = NoCalls
    /\ UNCHANGED <<default_pages, user_vars>>

Init ==
    /\ args \in [symbols : SymbolLists,
                 use_fuzzy_search : BOOLEAN,
                 page_not_found_ok : BOOLEAN,
                 with_threads : BOOLEAN,
                 thread_count : ThreadCounts,
                 progress_bar : BOOLEAN]
    /\ pc = "call"
    /\ symbols = args.symbols
    /\ resolve_units = <<>>
    /\ fetch_units = <<>>
    /\ valid_symbols = <<>>
    /\ summary_pages = <<>>
    /\ outcome = NotReturned
    /\ prev = NoCall
    /\ resolve_pbar = None
    /\ fetch_pbar = None
    /\ calls = NoCalls
    /\ default_pages = SummaryPageGroup_pages_default
    /\ group = <<>>
    /\ last = [op |-> "SummaryPageGroup", prior |-> "none", arg |-> None,
               before |-> <<>>, result |-> None, calls |-> NoCalls]
    \* The batch call sorts no list: its steps are the same under every
    \* interpreter, and one stands for all.
    /\ interpreter = CPython_3_12

Next ==
    \/ Call
    \/ SeqResolveCall
    \/ SeqResolveReturn
    \/ SeqFetchCall
    \/ SeqFetchReturn
    \/ ResolvePbar
    \/ ResolveWorkerStart
    \/ ResolveWorkerFinish
    \/ ResolveCollect
    \/ ResolveShutdown
    \/ FetchPbar
    \/ FetchWorkerStart
    \/ FetchWorkerFinish
    \/ FetchCollect
    \/ FetchShutdown
    \/ CallAgain

Spec == Init /\ [][Next]_vars

(***************************************************************************)
(* Properties                                                              *)
(***************************************************************************)
Count(s, x) == Cardinality({i \in DOMAIN s : s[i] = x})

\* The data source has a summary page for the symbol: the request succeeds
\* and the page holds both the quote header and the summary table.
HasSummaryPage(s) ==
    LET response == requestor(s)
    IN  /\ response.ok
        /\ response.html.header # None
        /\ response.html.quote_summary # None
        /\ response.html.quote_summary.rows # [class |-> "dict"]

\* The lookup of the symbol answers with a match.
IsTicker(s) == fuzzy_search(s).class = "FuzzyResult"
LookupFails(s) == IsRaised(fuzzy_search(s))

\* The input symbol stands for no ticker with a summary page.
NotARealTicker(s) ==
    /\ ~LookupFails(s)
    /\ IsTicker(s) => ~HasSummaryPage(fuzzy_search(s).symbol)

Done == pc = "done"
ReturnedPages ==
    IF outcome.kind = "returned" /\ outcome.value # None
    THEN outcome.value.pages
    ELSE <<>>
\* The indices of the fetch pass whose symbol has a summary page.
Fetched == {i \in DOMAIN symbols : HasSummaryPage(symbols[i])}
RecordSymbols == {Upper(s) : s \in SingleSymbols}

\* C1: a batch call with page_not_found_ok=False and fuzzy search on, in
\* either mode, given an input symbol that stands for no ticker with a
\* summary page, raises SummaryPageNotFound.
C1_StrictModeRaises ==
    (/\ Done
     /\ ~args.page_not_found_ok
     /\ args.use_fuzzy_search
     /\ \A s \in Range(args.symbols) : ~LookupFails(s)
     /\ \E s \in Range(args.symbols) : NotARealTicker(s))
        => outcome = RaisedOutcome("SummaryPageNotFound")

\* C2: with page_not_found_ok=True the batch call never raises
\* SummaryPageNotFound, and what it returns holds one page for each symbol
\* of the fetch pass that has a summary page and nothing else.
C2_PartialTolerance ==
    (Done /\ args.page_not_found_ok) =>
        /\ outcome # RaisedOutcome("SummaryPageNotFound")
        /\ outcome.kind = "returned" =>
              \A c \in RecordSymbols :
                 Count(SummaryPageGroup_symbols(ReturnedPages), c)
                    = Cardinality({i \in Fetched : Upper(symbols[i]) = c})

\* C2 witness: a threaded call over one good and one bad symbol has
\* returned a group of one page.
C2_Witness ==
    /\ Done
    /\ args.page_not_found_ok
    /\ args.with_threads
    /\ Len(symbols) = 2
    /\ Cardinality(Fetched) = 1
    /\ Len(ReturnedPages) = 1

\* C3: a batch call that returns, returns None or a group of at least one
\* page, never an empty group.
C3_NeverEmptyGroup ==
    (Done /\ outcome.kind = "returned") =>
        \/ outcome.value = None
        \/ /\ outcome.value.class = "SummaryPageGroup"
           /\ Len(outcome.value.pages) >= 1

\* C3 witness: every symbol of a non-empty fetch pass failed with
\* page_not_found_ok=True and the call returned None.
C3_Witness ==
    /\ Done
    /\ args.page_not_found_ok
    /\ Len(fetch_units) >= 1
    /\ \A i \in DOMAIN fetch_units : fetch_units[i] = "collected"
    /\ outcome = Returned(None)

\* C4: with fuzzy search on, a returned group holds exactly one page for
\* every canonical symbol with a summary page that an input resolves to,
\* however many inputs resolve to it.
C4_Dedup ==
    (Done /\ args.use_fuzzy_search /\ outcome.kind = "returned") =>
        \A s \in Range(args.symbols) :
            (IsTicker(s) /\ HasSummaryPage(fuzzy_search(s).symbol)) =>
                Count(SummaryPageGroup_symbols(ReturnedPages),
                      fuzzy_search(s).symbol) = 1

\* C4 witness: the input GOOG, GOOG, goog gave a group of one GOOG page.
C4_Witness ==
    /\ Done
    /\ args.use_fuzzy_search
    /\ args.with_threads
    /\ args.symbols = <<GOOG, GOOG, goog>>
    /\ SummaryPageGroup_symbols(ReturnedPages) = <<GOOG>>

\* Two outcomes are the same up to the order of the pages.
SameOutcome(a, b) ==
    /\ a.kind = b.kind
    /\ a.kind = "raised" => a.error = b.error
    /\ a.kind = "returned" =>
          /\ (a.value = None) <=> (b.value = None)
          /\ a.value # None =>
                \A c \in RecordSymbols :
                    Count(SummaryPageGroup_symbols(a.value.pages), c)
                        = Count(SummaryPageGroup_symbols(b.value.pages), c)

\* The distinct symbols the second pass works on: with fuzzy search, those of
\* the matches of the input symbols.
FetchPassSymbols ==
    IF args.use_fuzzy_search
    THEN {fuzzy_search(s).symbol : s \in {x \in Range(args.symbols) : IsTicker(x)}}
    ELSE Range(args.symbols)

\* The input makes a call raise, whatever its mode: a lookup fails, or a
\* get_summary_page call of the second pass raises.
InputRaises ==
    \/ args.use_fuzzy_search /\ \E s \in Range(args.symbols) : LookupFails(s)
    \/ /\ ~(args.use_fuzzy_search /\ \E s \in Range(args.symbols) : LookupFails(s))
       /\ \E s \in FetchPassSymbols :
             IsRaised(get_summary_page_results[s][fetch_use_fuzzy_search]
                                              [args.page_not_found_ok])

\* C5: the call without threads ends as the call with threads on the same
\* input ended, whatever the pool size and the order in which the workers
\* ran: both return None, or both return groups with the same multiset of
\* symbols; and in either mode a call raises for the same inputs.
C5_ModesAgree ==
    /\ (Done /\ prev # NoCall) => SameOutcome(prev, outcome)
    /\ Done => (outcome.kind = "raised" <=> InputRaises)

\* C5 witness: both calls returned groups of two pages, in different order.
C5_Witness ==
    /\ Done
    /\ ~args.with_threads
    /\ args.thread_count = MaxThreads
    /\ prev.kind = "returned"
    /\ prev.value # None
    /\ Len(prev.value.pages) = 2
    /\ outcome # prev

\* C10: in a threaded call with fuzzy search no get_summary_page call is
\* submitted before every fuzzy_search call has finished and its result
\* has been collected, and none is ever submitted once the first pass has
\* raised.
C10_PassesNotPipelined ==
    (args.with_threads /\ args.use_fuzzy_search) =>
        /\ fetch_units # <<>> =>
              /\ \A j \in DOMAIN resolve_units : resolve_units[j] = "collected"
              /\ resolve_units # <<>>
        /\ (\E j \in DOMAIN resolve_units : resolve_units[j] = "raised") =>
              fetch_units = <<>>

\* C10 witness: a get_summary_page call runs in a threaded call that
\* resolved three symbols first.
C10_Witness ==
    /\ args.with_threads
    /\ args.use_fuzzy_search
    /\ Len(resolve_units) = 3
    /\ Running(fetch_units) # {}

(***************************************************************************)
(* Properties of the single fetch and of SummaryPageGroup, checked under   *)
(* UserSpec.                                                               *)
(***************************************************************************)
\* The symbol get_summary_page requests the page for.
Target(a) ==
    IF a.use_fuzzy_search /\ IsTicker(a.symbol)
    THEN fuzzy_search(a.symbol).symbol
    ELSE a.symbol

\* The call requested a page: its lookup, if any, raised nothing.
PageRequested ==
    /\ last.op = "get_summary_page"
    /\ ~(last.arg.use_fuzzy_search /\ LookupFails(last.arg.symbol))

\* C6: get_summary_page returns a SummaryPage exactly when the request
\* succeeded and both the quote header and the summary table were parsed;
\* otherwise it returns None if page_not_found_ok and raises
\* SummaryPageNotFound if not.
C6_SingleFetchOutcome ==
    PageRequested =>
        LET response == requestor(Target(last.arg))
            found == /\ response.ok
                     /\ response.html.header # None
                     /\ response.html.quote_summary # None
                     /\ response.html.quote_summary.rows # [class |-> "dict"]
        IN  /\ last.result.class = "SummaryPage" <=> found
            /\ ~found =>
                  last.result = IF last.arg.page_not_found_ok
                                THEN None
                                ELSE Raised("SummaryPageNotFound")

\* C6 witness: the page of DEAD has a quote header and no summary table,
\* and the call raised SummaryPageNotFound.
C6_Witness ==
    /\ PageRequested
    /\ last.arg.symbol = DEAD
    /\ requestor(Target(last.arg)).ok
    /\ ~last.arg.page_not_found_ok
    /\ last.result = Raised("SummaryPageNotFound")

\* C7: append of an object that is not of class SummaryPage raises and
\* leaves the pages as they were; append of a SummaryPage adds it at the
\* end and changes nothing else.
C7_AppendGuard ==
    last.op = "append" =>
        IF last.arg.class = "SummaryPage"
        THEN /\ last.result = None
             /\ Len(group) = Len(last.before) + 1
             /\ group[Len(group)] = last.arg
             /\ SubSeq(group, 1, Len(last.before)) = last.before
        ELSE /\ last.result = Raised("AttributeError")
             /\ group = last.before

\* C7 witness: a pages dict was refused by a group that holds two pages.
C7_Witness ==
    /\ last.op = "append"
    /\ last.arg.class = "dict"
    /\ Len(group) = 2
    /\ last.result = Raised("AttributeError")

\* The group is one that calls of append build: every page in it is of class
\* SummaryPage.
BuiltByAppend(pages) == \A i \in DOMAIN pages : pages[i].class = "SummaryPage"

\* C8: .symbols of a group built by calls of append, read right after
\* sort(), is in non-decreasing order.
C8_SortInvariant ==
    (last.op = "symbols" /\ last.prior = "sort" /\ BuiltByAppend(group))
        => NonDecreasing(last.result)

\* C8 witness: symbols were read after a sort that had to move pages of a
\* group holding the same symbol twice.
C8_Witness ==
    /\ last.op = "symbols"
    /\ last.prior = "sort"
    /\ BuiltByAppend(group)
    /\ Len(last.result) = 3
    /\ last.result[2] = last.result[3]
    /\ last.result[1] # last.result[2]

\* The rows of a frame under a key.
RowsOf(frame, key) == {i \in DOMAIN frame.index : frame.index[i] = key}

\* C9: .dataframe of a group with pages has one row per page, keyed by the
\* symbol, in ascending order of the symbols, and no quote column;
\* .dataframe of a group without pages is None.
C9_Dataframe ==
    last.op = "dataframe" =>
        IF last.before = <<>>
        THEN last.result = None
        ELSE /\ last.result.class = "DataFrame"
             /\ Len(last.result.rows) = Len(last.before)
             /\ Len(last.result.index) = Len(last.before)
             /\ NonDecreasing(last.result.index)
             /\ "quote" \notin last.result.columns
             /\ \A i \in DOMAIN last.result.rows :
                   "quote" \notin DOMAIN last.result.rows[i]
             /\ \A p \in Range(last.before) :
                   Cardinality({i \in RowsOf(last.result, p.symbol) :
                                  /\ last.result.rows[i].name = p.name
                                  /\ last.result.rows[i].open = p.open})
                      = Cardinality({j \in DOMAIN last.before :
                                       /\ last.before[j].symbol = p.symbol
                                       /\ last.before[j].name = p.name
                                       /\ last.before[j].open = p.open})

\* C9 witness: the frame of the pages GOOG, AAPL has the rows AAPL, GOOG.
C9_Witness ==
    /\ last.op = "dataframe"
    /\ SummaryPageGroup_symbols(last.before) = <<GOOG, AAPL>>
    /\ last.result.index = <<AAPL, GOOG>>

(***************************************************************************)
(* Properties of the passes, checked under Spec.                           *)
(***************************************************************************)
Units(states) ==
    {i \in DOMAIN resolve_units : resolve_units[i] \in states}
        \cup {Len(resolve_units) + i : i \in {j \in DOMAIN fetch_units :
                                                  fetch_units[j] \in states}}
\* The units of the pass in which the call raised.
FailedPass == IF fetch_units = <<>> THEN resolve_units ELSE fetch_units
RaisedAt(units) == CHOOSE i \in DOMAIN units : units[i] = "raised"

\* C11: (a) a call without threads that raises has made no call for any
\* symbol after the one that raised; (b) a call with threads that raises
\* has retrieved the error from a finished unit, has appended nothing
\* after it, and every unit submitted in that pass has run when the error
\* reaches the caller; no unit runs once the call has returned or raised.
C11_ErrorPropagation ==
    /\ Done => Units({"running"}) = {}
    /\ (Done /\ outcome.kind = "raised" /\ ~args.with_threads) =>
          /\ \E i \in DOMAIN FailedPass : FailedPass[i] = "raised"
          /\ \A i \in DOMAIN FailedPass :
                /\ i < RaisedAt(FailedPass) => FailedPass[i] = "collected"
                /\ i > RaisedAt(FailedPass) => FailedPass[i] = "pending"
          /\ FailedPass = resolve_units => fetch_units = <<>>
    /\ (Done /\ outcome.kind = "raised" /\ args.with_threads) =>
          /\ Cardinality({i \in DOMAIN FailedPass : FailedPass[i] = "raised"}) = 1
          /\ \A i \in DOMAIN FailedPass :
                FailedPass[i] \in {"collected", "done", "raised"}
          /\ IF FailedPass = resolve_units
             THEN Len(valid_symbols)
                    = Cardinality({i \in DOMAIN resolve_units :
                                     resolve_units[i] = "collected"})
             ELSE Len(summary_pages)
                    = Cardinality({i \in DOMAIN fetch_units :
                                     fetch_units[i] = "collected"})

\* C11 witness: a call with threads has raised although two of its fetch
\* units finished without their results ever being retrieved.
C11_Witness ==
    /\ Done
    /\ args.with_threads
    /\ outcome = RaisedOutcome("SummaryPageNotFound")
    /\ Cardinality({i \in DOMAIN fetch_units : fetch_units[i] = "done"}) = 2

\* C12: with threads at most thread_count calls of fuzzy_search or
\* get_summary_page run at any moment; without threads at most one.
C12_BoundedParallelism ==
    Cardinality(Units({"running"})) <=
        (IF args.with_threads THEN args.thread_count ELSE 1)

\* C12 witness: a pool of two workers is busy while a third call waits.
C12_Witness ==
    /\ args.with_threads
    /\ args.thread_count = 2
    /\ Cardinality(Units({"running"})) = 2
    /\ Units({"pending"}) # {}

\* The second pass of the call has begun.
FetchPassBegun ==
    \/ InFetchPass
    \/ Done /\ "raised" \notin Range(resolve_units)

Collected(units) == {i \in DOMAIN units : units[i] = "collected"}

\* C13: in a call with threads the two lists grow only when the
\* coordinator retrieves a result: at every moment of the first pass
\* valid_symbols holds one entry per retrieved fuzzy_search result, and at
\* every moment summary_pages holds one page per
\* retrieved get_summary_page result that is a page, whatever the workers
\* do meanwhile; on return the group holds as many pages as fetch units
\* returned a page.
C13_SerializedAppends ==
    args.with_threads =>
        /\ ~FetchPassBegun =>
              Len(valid_symbols) = Cardinality(Collected(resolve_units))
        /\ Len(summary_pages)
              = Cardinality({i \in Collected(fetch_units) : HasSummaryPage(symbols[i])})
        /\ (Done /\ outcome.kind = "returned") =>
              Len(ReturnedPages)
                 = Cardinality({i \in DOMAIN fetch_units : HasSummaryPage(symbols[i])})

\* C13 witness: a call with two workers returned two pages in the order
\* the calls finished, not the order they were submitted.
C13_Witness ==
    /\ Done
    /\ args.with_threads
    /\ args.thread_count = 2
    /\ Len(ReturnedPages) = 2
    /\ Len(symbols) = 2
    /\ ReturnedPages[1].symbol = Upper(symbols[2])
    /\ ReturnedPages[2].symbol = Upper(symbols[1])

\* C14: with fuzzy search on, in either mode and for either value of
\* page_not_found_ok, an input symbol the lookup finds nothing for is
\* dropped: every get_summary_page call is for the canonical symbol of an
\* input that was found, and a call whose other inputs all have a summary
\* page returns without an error.
C14_ResolutionNeverFatal ==
    args.use_fuzzy_search =>
        /\ \A i \in DOMAIN fetch_units :
              \E s \in Range(args.symbols) :
                  IsTicker(s) /\ fuzzy_search(s).symbol = symbols[i]
        /\ (/\ Done
            /\ \A s \in Range(args.symbols) :
                  /\ ~LookupFails(s)
                  /\ IsTicker(s) => HasSummaryPage(fuzzy_search(s).symbol))
              => outcome.kind = "returned"

\* C14 witness: a call with threads and page_not_found_ok=False, given
\* AAPL and a symbol the lookup finds nothing for, returned the AAPL page.
C14_Witness ==
    /\ Done
    /\ args.with_threads
    /\ args.use_fuzzy_search
    /\ ~args.page_not_found_ok
    /\ Range(args.symbols) = {AAPL, NOPE}
    /\ SummaryPageGroup_symbols(ReturnedPages) = <<AAPL>>

\* C15: with the progress bar enabled each pass has a counter of its own,
\* whose total is the number of units of the pass (the distinct input
\* symbols for the first pass, the distinct resolved symbols for the
\* second); the counter has advanced once for every unit whose result was
\* taken, never past its total, and a pass that ends without an error
\* leaves it at its total.  The first counter exists only with fuzzy
\* search, and no counter exists with the progress bar disabled.  A threaded
\* pass starts its counter after it submitted its units and before it takes
\* the first result.
C15_ProgressAccounting ==
    pc # "call" =>
        /\ resolve_pbar # None <=>
              (args.progress_bar /\ args.use_fuzzy_search /\ pc # "resolve_submitted")
        /\ fetch_pbar # None <=>
              (args.progress_bar /\ FetchPassBegun /\ pc # "fetch_submitted")
        /\ resolve_pbar # None =>
              /\ resolve_pbar.total = Cardinality(Range(args.symbols))
              /\ resolve_pbar.total = Len(resolve_units)
              /\ resolve_pbar.count = Cardinality(Collected(resolve_units))
              /\ resolve_pbar.count <= resolve_pbar.total
              /\ FetchPassBegun => resolve_pbar.count = resolve_pbar.total
        /\ fetch_pbar # None =>
              /\ fetch_pbar.total = Cardinality(FetchPassSymbols)
              /\ fetch_pbar.total = Len(fetch_units)
              /\ fetch_pbar.count = Cardinality(Collected(fetch_units))
              /\ fetch_pbar.count <= fetch_pbar.total
              /\ outcome.kind = "returned" => fetch_pbar.count = fetch_pbar.total

\* A threaded call with the progress bar returned: the first pass had three
\* units, the second fewer, and both counters stand at their totals.
C15_Witness ==
    /\ Done
    /\ args.with_threads
    /\ args.progress_bar
    /\ outcome.kind = "returned"
    /\ resolve_pbar # None
    /\ fetch_pbar # None
    /\ resolve_pbar.total = 3
    /\ resolve_pbar.count = 3
    /\ fetch_pbar.total \in 1..2
    /\ fetch_pbar.count = fetch_pbar.total

\* C16: get_summary_page with use_fuzzy_search calls the lookup once; on a
\* match the page is requested for the canonical symbol of the match and
\* the SummaryPage carries that symbol; on no match the call goes on with
\* the symbol as given and the miss raises nothing by itself.  Without
\* use_fuzzy_search the lookup is not called and has no part in the result.
C16_FuzzyStep ==
    last.op = "get_summary_page" =>
        LET a == last.arg
            direct(s) == get_summary_page(s, FALSE, a.page_not_found_ok)
        IN  /\ a.use_fuzzy_search =>
                  /\ last.calls.fuzzy_search = (a.symbol :> 1)
                  /\ IsTicker(a.symbol) =>
                        /\ last.result = direct(fuzzy_search(a.symbol).symbol)
                        /\ last.result.class = "SummaryPage" =>
                              last.result.symbol = clean_symbol(fuzzy_search(a.symbol).symbol)
                  /\ fuzzy_search(a.symbol) = None =>
                        /\ last.result = direct(a.symbol)
                        /\ HasSummaryPage(a.symbol) => last.result.class = "SummaryPage"
                        /\ a.page_not_found_ok => ~IsRaised(last.result)
            /\ ~a.use_fuzzy_search =>
                  /\ last.calls.fuzzy_search = <<>>
                  /\ last.result.class = "SummaryPage" <=> HasSummaryPage(a.symbol)
                  /\ last.result # Raised("ConnectionError")

\* GOOGLE has no page of its own and the lookup matches it to GOOG: the
\* call with use_fuzzy_search returned the page of GOOG.
C16_Witness ==
    /\ last.op = "get_summary_page"
    /\ last.arg.symbol = GOOGLE
    /\ last.arg.use_fuzzy_search
    /\ ~HasSummaryPage(GOOGLE)
    /\ last.result.class = "SummaryPage"
    /\ last.result.symbol = GOOG
    /\ last.result.name = requestor(GOOG).html.header.name

\* The two numbers of a range text "a - b".
FirstSegment(text) == parse_number(strip(split(text, 45)[1]))
SecondSegment(text) == parse_number(strip(split(text, 45)[2]))

\* C17: a SummaryPage built from a page whose days_range and
\* fifty_two_week_range read "low - high" has its low field from the first
\* segment and its high field from the second segment, for both ranges.
C17_RangeSplitting ==
    (PageRequested /\ last.result.class = "SummaryPage") =>
        LET data == parse_summary_table(requestor(Target(last.arg)).html)
        IN  /\ last.result.low = FirstSegment(data.days_range)
            /\ last.result.high = SecondSegment(data.days_range)
            /\ last.result.fifty_two_week_low = FirstSegment(data.fifty_two_week_range)
            /\ last.result.fifty_two_week_high = SecondSegment(data.fifty_two_week_range)

\* What get_summary_page returns for each symbol of a batch call when it
\* does not raise: the page of the data source, or None.
SourcePages == [s \in BatchSymbols |-> get_summary_page_results[s][FALSE][TRUE]]

\* What the units of the second pass whose result was taken have returned.
ResultsTaken == [i \in Collected(fetch_units) |-> SourcePages[symbols[i]]]

\* The units of the second pass whose result was taken and is a page.
PagesTaken == {i \in Collected(fetch_units) : ResultsTaken[i] # None}

\* C18: every batch call starts from an empty SummaryPageGroup of its own:
\* at every moment of a call, the first or a later one, the group holds
\* exactly the pages the call itself has fetched, one per unit, so no page
\* of an earlier call's group is in it; the group a call returns is that
\* list, and the default of the field pages never holds a page.
C18_FreshCollection ==
    /\ default_pages = <<>>
    /\ pc = "call" => summary_pages = <<>>
    /\ pc # "call" =>
          LET results == ResultsTaken
              taken == {i \in DOMAIN results : results[i] # None}
          IN  /\ Len(summary_pages) = Cardinality(taken)
              /\ Range(summary_pages) = {results[i] : i \in taken}
          /\ (outcome.kind = "returned" /\ outcome.value # None) =>
                outcome.value.pages = summary_pages

\* The second call, made after a call that returned two pages, returned its
\* own two pages.
C18_Witness ==
    /\ Done
    /\ ~args.with_threads
    /\ prev.kind = "returned"
    /\ prev.value # None
    /\ Len(prev.value.pages) = 2
    /\ Len(ReturnedPages) = 2
    /\ Cardinality(PagesTaken) = 2

\* Every argument in S was passed exactly once, and no other argument.
CalledOnceEach(bag, S) == DOMAIN bag = S /\ \A s \in S : bag[s] = 1

\* C19: in a batch call that returns, in either mode, fuzzy_search has been
\* called exactly once for each distinct input symbol if fuzzy search is
\* enabled and not at all if it is disabled (the second pass does not look
\* symbols up again), get_summary_page has been called exactly once for
\* each distinct symbol of the second pass, and the group returned has at
\* most as many pages as the second pass has symbols.  While a call runs no
\* function has been called twice with the same symbol.
C19_ExactlyOnce ==
    /\ \A s \in DOMAIN calls.fuzzy_search : calls.fuzzy_search[s] = 1
    /\ \A s \in DOMAIN calls.get_summary_page : calls.get_summary_page[s] = 1
    /\ (Done /\ outcome.kind = "returned") =>
          /\ CalledOnceEach(calls.fuzzy_search,
                            IF args.use_fuzzy_search THEN Range(args.symbols) ELSE {})
          /\ CalledOnceEach(calls.get_summary_page, FetchPassSymbols)
          /\ Len(ReturnedPages) <= Cardinality(FetchPassSymbols)

\* A threaded call given GOOG twice and goog once returned: two lookups,
\* one for each distinct input, and one fetch, of GOOG.
C19_Witness ==
    /\ Done
    /\ args.with_threads
    /\ args.use_fuzzy_search
    /\ outcome.kind = "returned"
    /\ Len(args.symbols) = 3
    /\ DOMAIN calls.fuzzy_search = {GOOG, goog}
    /\ DOMAIN calls.get_summary_page = {GOOG}
    /\ Len(ReturnedPages) = 1

====
